---- MODULE Spec2Model ----
(***************************************************************************)
(* Vkav signal-processing pipeline (src/src/Proccess.cpp).                 *)
(*                                                                         *)
(* Numbers.  A C++ float is modelled in fixed point: the integer v stands  *)
(* for the real v/FP.  Spectrum entries and the smoothing factor can also  *)
(* be non-finite, so they are records [k, v] with k one of "num", "inf",   *)
(* "nan".  Transcendental library calls (sinf, logf, log10f, expf,         *)
(* std::exp of an imaginary argument, sqrtf) are evaluated in the same     *)
(* fixed point: by table at the finitely many arguments the bounded model  *)
(* reaches, or by an integer algorithm.  Float rounding noise is not       *)
(* modelled; division by zero and underflow to zero are.                   *)
(***************************************************************************)
EXTENDS Integers, Sequences, FiniteSets, TLC

VARIABLES settings, impl, audioData, heap, pc, stages, calls, freed,
          shuffle, sampler, renderer

\* the signal-processing pipeline and the arrays it works on
pipelineVars == <<settings, impl, audioData, heap, pc, stages, calls, freed>>

\* everything else: one loop iteration of bitReverseShuffle, the audio
\* sampler, the renderer
notPipeline == <<shuffle, sampler, renderer>>

vars == <<pipelineVars, notPipeline>>

(***************************************************************************)
(* Fixed-point floats                                                      *)
(***************************************************************************)
FP == 1000

Num(x) == [k |-> "num", v |-> x]
NaN    == [k |-> "nan", v |-> 0]
PInf   == [k |-> "inf", v |-> 1]

IsNaN(f)    == f.k = "nan"
IsFinite(f) == f.k = "num"

Abs(x) == IF x < 0 THEN -x ELSE x
Max(a, b) == IF a > b THEN a ELSE b
Min(a, b) == IF a < b THEN a ELSE b

\* quotient rounded toward zero, as float-to-int conversion and symmetric rounding do
TruncDiv(a, b) == IF a >= 0 THEN a \div b ELSE -((-a) \div b)

\* product of two fixed-point floats
FMul(a, b) == TruncDiv(a * b, FP)

\* IEEE float division a / b of two finite operands
FDiv(a, b) ==
    IF b = 0
    THEN IF a = 0 THEN NaN ELSE PInf
    ELSE Num(TruncDiv(a * FP, b))

RECURSIVE SqrtSearch(_, _, _)
SqrtSearch(n, lo, hi) ==
    IF lo >= hi THEN lo
    ELSE LET mid == (lo + hi + 1) \div 2
         IN  IF mid * mid <= n THEN SqrtSearch(n, mid, hi)
                               ELSE SqrtSearch(n, lo, mid - 1)

\* floor of the square root of a natural number (below 46340^2)
Isqrt(n) == SqrtSearch(n, 0, Min(n, 46340))

\* sqrtf of a fixed-point float
FSqrt(x) == Isqrt(x * FP)

(***************************************************************************)
(* Complex numbers: std::complex<float>                                    *)
(***************************************************************************)
Cx(re, im) == [re |-> re, im |-> im]
CAdd(a, b) == Cx(a.re + b.re, a.im + b.im)
CSub(a, b) == Cx(a.re - b.re, a.im - b.im)
CMul(a, b) == Cx(TruncDiv(a.re * b.re - a.im * b.im, FP),
                 TruncDiv(a.re * b.im + a.im * b.re, FP))
CConj(a)   == Cx(a.re, -a.im)
CHalf(a)   == Cx(TruncDiv(a.re, 2), TruncDiv(a.im, 2))
CAbs(a)    == Isqrt(a.re * a.re + a.im * a.im)
COne       == Cx(FP, 0)
CHalfI     == Cx(0, FP \div 2)

\* cos and sin of -2*pi*e/8, e in 0..7, in fixed point
CosEighth == <<1000, 707, 0, -707, -1000, -707, 0, 707>>
SinEighth == <<0, -707, -1000, -707, 0, 707, 1000, 707>>

\* std::exp(std::complex<float>(0, -2*pi*num/den)) for den dividing 8
ExpI(num, den) ==
    LET e == ((num * (8 \div den)) % 8) + 1
    IN  Cx(CosEighth[e], SinEighth[e])

\* reinterpret_cast<std::complex<float>*>(buffer): element i is (buffer[2i], buffer[2i+1])
AsComplex(buffer, n) == [i \in 0..(n - 1) |-> Cx(buffer[2 * i], buffer[2 * i + 1])]

\* the float array that underlies an array of n complex values, the tail of buffer kept
AsFloats(cs, n, buffer) ==
    [i \in DOMAIN buffer |->
        IF i < 2 * n
        THEN IF i % 2 = 0 THEN cs[i \div 2].re ELSE cs[i \div 2].im
        ELSE buffer[i]]

(***************************************************************************)
(* fft, bitReverseShuffle, reverseBits                                     *)
(***************************************************************************)
RECURSIVE BitAnd(_, _)
BitAnd(a, b) ==
    IF a = 0 \/ b = 0 THEN 0
    ELSE (a % 2) * (b % 2) + 2 * BitAnd(a \div 2, b \div 2)

Pow2(n) == 2^n

RECURSIVE ReverseLoop(_, _, _, _)
ReverseLoop(val, n, i, reversed) ==
    IF i >= n THEN reversed
    ELSE ReverseLoop(val, n, i + 1,
                     2 * reversed + (IF (val \div 2^i) % 2 # 0 THEN 1 ELSE 0))

reverseBits(val, n) == ReverseLoop(val, n, 0, 0)

\* variant: the first mask is 0x0FFF, four bits too wide
NumBitsWideByteMask(size) ==
    15 - (IF BitAnd(size, 4095) # 0 THEN 8 ELSE 0)
       - (IF BitAnd(size, 3855) # 0 THEN 4 ELSE 0)
       - (IF BitAnd(size, 13107) # 0 THEN 2 ELSE 0)
       - (IF BitAnd(size, 21845) # 0 THEN 1 ELSE 0)

\* variant: the 0x0F0F step of the cascade is missing
NumBitsNoNibble(size) ==
    15 - (IF BitAnd(size, 255) # 0 THEN 8 ELSE 0)
       - (IF BitAnd(size, 13107) # 0 THEN 2 ELSE 0)
       - (IF BitAnd(size, 21845) # 0 THEN 1 ELSE 0)

\* the mask cascade that stands in for log2(size)
NumBits(size) ==
    15 - (IF BitAnd(size, 255) # 0 THEN 8 ELSE 0)
       - (IF BitAnd(size, 3855) # 0 THEN 4 ELSE 0)
       - (IF BitAnd(size, 13107) # 0 THEN 2 ELSE 0)
       - (IF BitAnd(size, 21845) # 0 THEN 1 ELSE 0)

RECURSIVE ShuffleLoop(_, _, _, _)
ShuffleLoop(first, size, numBits, i) ==
    IF i >= size THEN first
    ELSE LET j == reverseBits(i, numBits)
         IN  ShuffleLoop(IF i < j
                         THEN [first EXCEPT ![i] = first[j], ![j] = first[i]]
                         ELSE first,
                         size, numBits, i + 1)

\* variant: the butterflies run on the unshuffled array
bitReverseShuffleNone(first, size) == first

bitReverseShuffle(first, size) == ShuffleLoop(first, size, NumBits(size), 0)

RECURSIVE Butterflies(_, _, _, _, _)
Butterflies(first, k, m, j, w) ==
    IF 2 * j >= m THEN first
    ELSE LET t == CMul(w, first[k + j + m \div 2])
             u == first[k + j]
         IN  Butterflies([first EXCEPT ![k + j] = CAdd(u, t),
                                       ![k + j + m \div 2] = CSub(u, t)],
                         k, m, j + 1, CMul(w, ExpI(1, m)))

RECURSIVE Blocks(_, _, _, _)
Blocks(first, size, m, k) ==
    IF k >= size THEN first
    ELSE Blocks(Butterflies(first, k, m, 0, COne), size, m, k + m)

RECURSIVE FftStages(_, _, _)
FftStages(first, size, m) ==
    IF m > size THEN first
    ELSE FftStages(Blocks(first, size, m, 0), size, 2 * m)

fft(first, size) == FftStages(bitReverseShuffle(first, size), size, 2)

(***************************************************************************)
(* Library functions at the arguments the pipeline evaluates them at       *)
(***************************************************************************)
\* pow(sinf(wfCoeff * n), 2) with wfCoeff = pi / (inputSize - 1), by inputSize
WindowTab ==
    (2 :> <<0, 0>>) @@
    (4 :> <<0, 750, 750, 0>>) @@
    (8 :> <<0, 188, 611, 950, 950, 611, 188, 0>>)

WindowSq(n, inputSize) == WindowTab[inputSize][n + 1]

\* log10f at 2n/inputSize + 1.05 for the bins of inputSize 2, 4 and 8
Log10Tab == (1050 :> 21) @@ (1300 :> 114) @@ (1550 :> 190) @@ (1800 :> 255)

Log10f(x) == Log10Tab[x]

\* -logf(0.05f)
NegLog005 == 2996

\* expf(-k) for k = 0..6
ExpIntTab == <<1000, 368, 135, 50, 18, 7, 2>>

\* expf underflows to zero below about -103.28
ExpUnderflow == 103278

RECURSIVE ExpSeries(_, _, _, _)
ExpSeries(f, n, term, acc) ==
    IF term = 0 \/ n > 12 THEN acc
    ELSE LET next == (term * f) \div (FP * n)
         IN  ExpSeries(f, n + 1, next,
                       IF n % 2 = 1 THEN acc - next ELSE acc + next)

\* expf(-x) for a fixed-point x >= 0: positive wherever the float is positive
ExpNeg(x) ==
    IF x > ExpUnderflow THEN 0
    ELSE LET k == x \div FP
             frac == ExpSeries(x % FP, 1, FP, FP)
         IN  Max(1, IF k > 6 THEN 0 ELSE FMul(frac, ExpIntTab[k + 1]))

(***************************************************************************)
(* Arithmetic on spectrum entries, which may be non-finite                 *)
(***************************************************************************)
\* f * w for a finite w
FTimes(f, w) ==
    CASE f.k = "num" -> Num(FMul(f.v, w))
      [] f.k = "nan" -> NaN
      [] OTHER       -> IF w = 0 THEN NaN ELSE [k |-> "inf", v |-> IF w > 0 THEN f.v ELSE -f.v]

RECURSIVE Accumulate(_, _, _, _)
\* std::accumulate(a + from, a + to, init)
Accumulate(a, from, to, init) ==
    IF from >= to THEN init
    ELSE LET x == a[from]
             s == CASE init.k = "nan" \/ x.k = "nan" -> NaN
                    [] init.k = "num" /\ x.k = "num" -> Num(init.v + x.v)
                    [] init.k = "num" -> x
                    [] x.k = "num"    -> init
                    [] OTHER          -> IF init.v = x.v THEN init ELSE NaN
         IN  Accumulate(a, from + 1, to, s)

\* f / n for a positive count n
FOver(f, n) == IF f.k = "num" THEN Num(TruncDiv(f.v, n)) ELSE f

(***************************************************************************)
(* Bounds of the model                                                     *)
(***************************************************************************)
MaxCalls      == 2
MaxOutputSize == 3
MaxNonZero    == 2

InputSizes      == {4}
OutputSizes     == 1..MaxOutputSize
ChannelCounts   == {1, 2}
Amplitudes      == {0, 10 * FP}
SmoothingLevels == {0, FP \div 4, FP}
SampleValues    == {-FP, 0, FP}

\* the four float arrays: two allocated by the caller, two by the constructor
Addrs == {"callerL", "callerR", "implL", "implR"}

\* what an uninitialised float may hold
Garbage == {Num(-FP), NaN}

\* frames the capture side hands over: n floats, at most MaxNonZero of them non-zero
Frames(n) ==
    {f \in [0..(n - 1) -> SampleValues] :
        Cardinality({i \in 0..(n - 1) : f[i] # 0}) <= MaxNonZero}

Frames4 == Frames(4)
Frames8 == Frames(8)

FramesFor(inputSize, channels) ==
    IF inputSize * channels = 4 THEN Frames4
    ELSE IF inputSize * channels = 8 THEN Frames8
    ELSE Frames(inputSize * channels)

(***************************************************************************)
(* ProccessImpl                                                            *)
(***************************************************************************)
\* inputSize * inputSize * 0.125f / (smoothingLevel * smoothedSize * smoothingLevel * smoothedSize)
SmoothingFactor(inputSize, smoothedSize, smoothingLevel) ==
    FDiv(inputSize * inputSize * (FP \div 8),
         FMul(smoothingLevel * smoothedSize, smoothingLevel) * smoothedSize)

\* std::max(settings.inputSize / 2, settings.outputSize)
Capacity(s) == Max(s.inputSize \div 2, s.outputSize)

\* the constructor
Construct(s) ==
    [channels        |-> s.channels,
     lBuffer         |-> "implL",
     rBuffer         |-> "implR",
     inputSize       |-> s.inputSize,
     amplitude       |-> s.amplitude,
     smoothedSize    |-> s.outputSize,
     smoothingFactor |-> SmoothingFactor(s.inputSize, s.outputSize, s.smoothingLevel)]

\* windowFunction: sample n (a float in mono, a complex in stereo) times sin^2
WindowFunctionOp(buffer, inputSize, channels) ==
    [i \in DOMAIN buffer |->
        LET n == IF channels = 1 THEN i ELSE i \div 2
        IN  IF n < inputSize THEN FMul(buffer[i], WindowSq(n, inputSize)) ELSE buffer[i]]

\* the mono loop body of magnitudes: |F + w G| at bin r of the half-size transform X
MonoBin(X, r, inputSize) ==
    LET F == CHalf(CAdd(X[r], CConj(X[inputSize \div 2 - r])))
        G == CMul(CHalfI, CSub(CConj(X[inputSize \div 2 - r]), X[r]))
        w == ExpI(r, inputSize)
    IN  CAbs(CAdd(F, CMul(w, G)))

\* variant: the mono loop leaves the right channel silent
MonoRightBinSilent(left) == Num(0)

\* audioData.rBuffer[r] = audioData.lBuffer[r] in the mono loop
MonoRightBin(left) == left

\* the stereo loop body of magnitudes at bin i of the full-size transform X
StereoLeftBin(X, i, inputSize) ==
    CAbs(CHalf(CAdd(X[i], CConj(X[inputSize - i]))))

StereoRightBin(X, i, inputSize) ==
    CAbs(CMul(CHalfI, CSub(CConj(X[inputSize - i]), X[i])))

\* variant: bin 0 is copied from bin 1 of the same channel
BinZeroLeftOwn(l, r) == l[1]

\* bin 0 of the left array is copied from bin 1 of the right one, and conversely
BinZeroLeft(l, r)  == r[1]
BinZeroRight(l, r) == l[1]

\* magnitudes: the transformed buffer and the two spectrum arrays
MagnitudesOp(buffer, l, r, inputSize, channels) ==
    LET size == IF channels = 1 THEN inputSize \div 2 ELSE inputSize
        X    == fft(AsComplex(buffer, size), size)
        l1   == [b \in DOMAIN l |->
                    IF 1 <= b /\ b < inputSize \div 2
                    THEN Num(IF channels = 1 THEN MonoBin(X, b, inputSize)
                                             ELSE StereoLeftBin(X, b, inputSize))
                    ELSE l[b]]
        r1   == [b \in DOMAIN r |->
                    IF 1 <= b /\ b < inputSize \div 2
                    THEN IF channels = 1 THEN MonoRightBin(l1[b])
                                         ELSE Num(StereoRightBin(X, b, inputSize))
                    ELSE r[b]]
        l2   == [l1 EXCEPT ![0] = BinZeroLeft(l1, r1)]
        r2   == [r1 EXCEPT ![0] = BinZeroRight(l2, r1)]
    IN  [buffer |-> AsFloats(X, size, buffer), l |-> l2, r |-> r2]

\* variant: the logarithm is taken relative to bin 0, which loses the 1.05 offset
EqWeightNoOffset(n, inputSize, amplitude) ==
    FMul(FMul(80, amplitude),
         Log10f((2 * n * FP) \div inputSize + 1050) - Log10f(1050))

\* 0.08f * amplitude * log10f(2.f * n / inputSize + 1.05f)
EqWeight(n, inputSize, amplitude) ==
    FMul(FMul(80, amplitude), Log10f((2 * n * FP) \div inputSize + 1050))

\* equalise, on one spectrum array
EqualiseOp(a, inputSize, amplitude) ==
    [n \in DOMAIN a |->
        IF n < inputSize \div 2 THEN FTimes(a[n], EqWeight(n, inputSize, amplitude))
                                ELSE a[n]]

\* variant: the accumulation starts from 1.f instead of 0.f
VolumeOpFromOne(a, inputSize) ==
    FOver(Accumulate(a, 0, inputSize \div 2, Num(FP)), inputSize)

\* variant: the mean over the bins, that is the sum divided by inputSize / 2
VolumeOpPerBin(a, inputSize) ==
    FOver(Accumulate(a, 0, inputSize \div 2, Num(0)), inputSize \div 2)

\* calculateVolume, for one spectrum array
VolumeOp(a, inputSize) ==
    FOver(Accumulate(a, 0, inputSize \div 2, Num(0)), inputSize)

(***************************************************************************)
(* kernelSmooth                                                            *)
(***************************************************************************)
\* sqrtf(-logf(0.05f) / smoothingFactor) * oldSize / smoothedSize
Radius(smoothingFactor, oldSize, smoothedSize) ==
    LET q == IF smoothingFactor.k = "inf" THEN 0
             ELSE TruncDiv(NegLog005 * FP, smoothingFactor.v)
    IN  TruncDiv(FSqrt(q) * oldSize, smoothedSize)

\* i * oldSize / smoothedSize
Centre(i, oldSize, smoothedSize) == TruncDiv(i * oldSize * FP, smoothedSize)

WindowMin(i, oldSize, smoothedSize, radius) ==
    Max(0, TruncDiv(Centre(i, oldSize, smoothedSize) - radius, FP))

\* variant: the upper end of the window is not widened by the radius
WindowMaxNoRadius(i, oldSize, smoothedSize, radius) ==
    Min(oldSize, TruncDiv(Centre(i, oldSize, smoothedSize), FP))

\* variant: the upper end of the window is not clamped to oldSize
WindowMaxUnclamped(i, oldSize, smoothedSize, radius) ==
    TruncDiv(Centre(i, oldSize, smoothedSize) + radius, FP)

WindowMax(i, oldSize, smoothedSize, radius) ==
    Min(oldSize, TruncDiv(Centre(i, oldSize, smoothedSize) + radius, FP))

\* expf(-distance * distance * smoothingFactor), distance = i - j * smoothedSize / oldSize
KernelWeight(i, j, oldSize, smoothedSize, smoothingFactor) ==
    LET distance == i * FP - TruncDiv(j * smoothedSize * FP, oldSize)
    IN  IF smoothingFactor.k = "inf" THEN 0
        ELSE ExpNeg(FMul(FMul(distance, distance), smoothingFactor.v))

RECURSIVE WeightSum(_, _, _, _, _, _)
\* sum += weight, over j in [j, max)
WeightSum(i, j, max, oldSize, smoothedSize, smoothingFactor) ==
    IF j >= max THEN 0
    ELSE KernelWeight(i, j, oldSize, smoothedSize, smoothingFactor)
         + WeightSum(i, j + 1, max, oldSize, smoothedSize, smoothingFactor)

\* the guard (none) on the normalising division: acc / sum as the float division does it
Normalise(acc, sum) ==
    CASE acc.k = "nan" -> NaN
      [] acc.k = "inf" -> acc
      [] sum = 0       -> IF acc.v = 0 THEN NaN ELSE PInf
      [] OTHER         -> Num(TruncDiv(acc.v, sum))

\* one output entry: the weighted sum over the window, divided by the weight sum.
\* The products are accumulated unrounded, as float keeps relative precision.
KernelRow(src, i, oldSize, smoothedSize, smoothingFactor) ==
    LET radius == Radius(smoothingFactor, oldSize, smoothedSize)
        min    == WindowMin(i, oldSize, smoothedSize, radius)
        max    == WindowMax(i, oldSize, smoothedSize, radius)
        terms  == [j \in min..(max - 1) |->
                      LET w == KernelWeight(i, j, oldSize, smoothedSize, smoothingFactor)
                      IN  IF src[j].k = "num" THEN Num(src[j].v * w)
                                              ELSE FTimes(src[j], w * FP)]
        acc    == Accumulate(terms, min, max, Num(0))
        sum    == WeightSum(i, min, max, oldSize, smoothedSize, smoothingFactor)
    IN  Normalise(acc, sum)

\* the loop of kernelSmooth: entries [0, smoothedSize) of dst are overwritten
KernelSmoothOp(src, dst, inputSize, smoothedSize, smoothingFactor) ==
    [i \in DOMAIN dst |->
        IF i < smoothedSize
        THEN KernelRow(src, i, inputSize \div 2, smoothedSize, smoothingFactor)
        ELSE dst[i]]

(***************************************************************************)
(* The pipeline as a state machine.  pc is the statement of proccessSignal *)
(* that runs next; stages lists the stages the current call has run.       *)
(***************************************************************************)
\* variant: the volume is reduced before the spectrum is equalised
StageAfterVolumeFirst(stage) ==
    CASE stage = "windowFunction"  -> "magnitudes"
      [] stage = "magnitudes"      -> "calculateVolume"
      [] stage = "calculateVolume" -> "equalise"
      [] stage = "equalise"        -> "smooth"

\* the order of the calls in the body of proccessSignal
StageAfter(stage) ==
    CASE stage = "windowFunction"  -> "magnitudes"
      [] stage = "magnitudes"      -> "equalise"
      [] stage = "equalise"        -> "calculateVolume"
      [] stage = "calculateVolume" -> "smooth"

\* the other subsystems at rest
ShuffleIdle  == [pc |-> "none", size |-> 1, i |-> 0, from |-> 0, at |-> 0,
                 moves |-> 0, pass |-> 1]
SamplerIdle  == [pc |-> "none"]
RendererIdle == [pc |-> "none"]

NotPipelineIdle ==
    /\ shuffle = ShuffleIdle
    /\ sampler = SamplerIdle
    /\ renderer = RendererIdle

SettingsSet ==
    [channels : ChannelCounts, inputSize : InputSizes, outputSize : OutputSizes,
     amplitude : Amplitudes, smoothingLevel : SmoothingLevels]

Init ==
    /\ settings \in SettingsSet
    /\ impl = Construct(settings)
    /\ \E g \in Garbage :
          heap = [a \in Addrs |-> [i \in 0..(Capacity(settings) - 1) |-> g]]
    /\ audioData = [buffer  |-> [i \in 0..(settings.inputSize * settings.channels - 1) |-> 0],
                    lBuffer |-> "callerL", rBuffer |-> "callerR",
                    lVolume |-> Num(0), rVolume |-> Num(0)]
    /\ pc = "idle"
    /\ stages = <<>>
    /\ calls = 0
    /\ freed = {}
    /\ NotPipelineIdle

\* Proccess::proccessSignal is entered with a frame the capture side has copied in
ProccessSignal ==
    /\ pc = "idle"
    /\ calls < MaxCalls
    /\ \E f \in FramesFor(impl.inputSize, impl.channels) :
          audioData' = [audioData EXCEPT !.buffer = f]
    /\ pc' = "windowFunction"
    /\ stages' = <<>>
    /\ UNCHANGED <<settings, impl, heap, calls, freed, notPipeline>>

WindowFunction ==
    /\ pc = "windowFunction"
    /\ audioData' = [audioData EXCEPT
                       !.buffer = WindowFunctionOp(@, impl.inputSize, impl.channels)]
    /\ pc' = StageAfter("windowFunction")
    /\ stages' = Append(stages, "windowFunction")
    /\ UNCHANGED <<settings, impl, heap, calls, freed, notPipeline>>

Magnitudes ==
    /\ pc = "magnitudes"
    /\ LET m == MagnitudesOp(audioData.buffer, heap[audioData.lBuffer],
                             heap[audioData.rBuffer], impl.inputSize, impl.channels)
       IN  /\ audioData' = [audioData EXCEPT !.buffer = m.buffer]
           /\ heap' = [heap EXCEPT ![audioData.lBuffer] = m.l, ![audioData.rBuffer] = m.r]
    /\ pc' = StageAfter("magnitudes")
    /\ stages' = Append(stages, "magnitudes")
    /\ UNCHANGED <<settings, impl, calls, freed, notPipeline>>

Equalise ==
    /\ pc = "equalise"
    /\ heap' = [heap EXCEPT
                  ![audioData.lBuffer] = EqualiseOp(@, impl.inputSize, impl.amplitude),
                  ![audioData.rBuffer] = EqualiseOp(@, impl.inputSize, impl.amplitude)]
    /\ pc' = StageAfter("equalise")
    /\ stages' = Append(stages, "equalise")
    /\ UNCHANGED <<settings, impl, audioData, calls, freed, notPipeline>>

CalculateVolume ==
    /\ pc = "calculateVolume"
    /\ audioData' = [audioData EXCEPT
                       !.lVolume = VolumeOp(heap[audioData.lBuffer], impl.inputSize),
                       !.rVolume = VolumeOp(heap[audioData.rBuffer], impl.inputSize)]
    /\ pc' = StageAfter("calculateVolume")
    /\ stages' = Append(stages, "calculateVolume")
    /\ UNCHANGED <<settings, impl, heap, calls, freed, notPipeline>>

\* variant: the left pointer is exchanged with the right one of the other side
SwapIntoAudioDataCrossed(ad, im) == [ad EXCEPT !.lBuffer = im.rBuffer, !.rBuffer = im.lBuffer]

\* std::swap(audioData.lBuffer, lBuffer); std::swap(audioData.rBuffer, rBuffer):
\* the caller's side of the exchange
SwapIntoAudioData(ad, im) == [ad EXCEPT !.lBuffer = im.lBuffer, !.rBuffer = im.rBuffer]

\* the pipeline's side of the exchange
SwapIntoImpl(ad, im) == [im EXCEPT !.lBuffer = ad.lBuffer, !.rBuffer = ad.rBuffer]

\* the test that decides whether smooth runs
SmoothEnabled(smoothingFactor) == ~IsNaN(smoothingFactor)

\* if (!std::isnan(smoothingFactor)) smooth(audioData); then the call returns
Smooth ==
    /\ pc = "smooth"
    /\ IF SmoothEnabled(impl.smoothingFactor)
       THEN /\ heap' = [heap EXCEPT
                          ![impl.lBuffer] = KernelSmoothOp(heap[audioData.lBuffer], @,
                                               impl.inputSize, impl.smoothedSize,
                                               impl.smoothingFactor),
                          ![impl.rBuffer] = KernelSmoothOp(heap[audioData.rBuffer], @,
                                               impl.inputSize, impl.smoothedSize,
                                               impl.smoothingFactor)]
            /\ audioData' = SwapIntoAudioData(audioData, impl)
            /\ impl' = SwapIntoImpl(audioData, impl)
            /\ stages' = Append(stages, "smooth")
       ELSE UNCHANGED <<heap, audioData, impl, stages>>
    /\ pc' = "idle"
    /\ calls' = calls + 1
    /\ UNCHANGED <<settings, freed, notPipeline>>

\* Proccess::cleanup: delete impl runs the destructor, which deletes the two
\* arrays the members lBuffer and rBuffer point to at that moment
Cleanup ==
    /\ pc = "idle"
    /\ freed' = freed \cup {impl.lBuffer, impl.rBuffer}
    /\ pc' = "destroyed"
    /\ UNCHANGED <<settings, impl, audioData, heap, stages, calls, notPipeline>>

Next ==
    \/ ProccessSignal
    \/ WindowFunction
    \/ Magnitudes
    \/ Equalise
    \/ CalculateVolume
    \/ Smooth
    \/ Cleanup

Spec == Init /\ [][Next]_vars

(***************************************************************************)
(* Function-level specifications: the inputs of one function are drawn in  *)
(* the initial state and the only step applies the function.               *)
(***************************************************************************)
\* magnitudes on an arbitrary frame
InitMag ==
    /\ settings \in SettingsSet
    /\ impl = Construct(settings)
    /\ \E g \in Garbage :
          heap = [a \in Addrs |-> [i \in 0..(Capacity(settings) - 1) |-> g]]
    /\ \E f \in FramesFor(settings.inputSize, settings.channels) :
          audioData = [buffer  |-> f,
                       lBuffer |-> "callerL", rBuffer |-> "callerR",
                       lVolume |-> Num(0), rVolume |-> Num(0)]
    /\ pc = "magnitudes"
    /\ stages = <<"windowFunction">>
    /\ calls = 0
    /\ freed = {}
    /\ NotPipelineIdle

SpecMag == InitMag /\ [][Magnitudes]_vars

\* sizes at which every twiddle factor is a Gaussian integer
FftSizes == {1, 2, 4}

\* fft(input, inputSize) on an arbitrary array of inputSize Gaussian integers
InitFft ==
    /\ \E n \in FftSizes :
          settings = [channels |-> 2, inputSize |-> n, outputSize |-> 1,
                      amplitude |-> 0, smoothingLevel |-> FP]
    /\ impl = Construct(settings)
    /\ heap = [a \in Addrs |-> [i \in 0..(Capacity(settings) - 1) |-> NaN]]
    /\ \E f \in [0..(2 * settings.inputSize - 1) -> SampleValues] :
          audioData = [buffer  |-> f,
                       lBuffer |-> "callerL", rBuffer |-> "callerR",
                       lVolume |-> Num(0), rVolume |-> Num(0)]
    /\ pc = "fft"
    /\ stages = <<>>
    /\ calls = 0
    /\ freed = {}
    /\ NotPipelineIdle

Fft ==
    /\ pc = "fft"
    /\ audioData' = [audioData EXCEPT
                       !.buffer = AsFloats(fft(AsComplex(@, impl.inputSize), impl.inputSize),
                                           impl.inputSize, @)]
    /\ pc' = "fftDone"
    /\ UNCHANGED <<settings, impl, heap, stages, calls, freed, notPipeline>>

SpecFft == InitFft /\ [][Fft]_vars

(***************************************************************************)
(* Properties                                                              *)
(***************************************************************************)
FullOrder == <<"windowFunction", "magnitudes", "equalise", "calculateVolume", "smooth">>

IsPrefix(s, t) == Len(s) <= Len(t) /\ \A i \in 1..Len(s) : s[i] = t[i]

\* a call of proccessSignal has returned
Returned == pc = "idle" /\ calls > 0

Half == impl.inputSize \div 2

\* the arrays the caller sees
OutL == heap[audioData.lBuffer]
OutR == heap[audioData.rBuffer]

SmoothRan == \E i \in 1..Len(stages) : stages[i] = "smooth"

\* C1: within a call the stages run in the order windowFunction, magnitudes,
\* equalise, calculateVolume, smooth; when the call returns each of the first
\* four has run exactly once and smooth at most once, as the last stage.
C1_StageOrder ==
    /\ IsPrefix(stages, FullOrder)
    /\ pc = "smooth" => Len(stages) = 4
    /\ Returned => Len(stages) >= 4

C1_Witness == Returned /\ stages = FullOrder

\* C2: with smoothingLevel = 0 the smoothing factor is NaN and a call skips
\* the smoother: no smooth stage, no buffer swap, and the caller's arrays hold
\* the (finite) equalised spectrum.
C2_SmoothSkippedAtLevelZero ==
    (Returned /\ settings.smoothingLevel = 0 /\ settings.inputSize > 0
              /\ settings.outputSize > 0)
    => /\ IsNaN(impl.smoothingFactor)
       /\ ~SmoothRan
       /\ audioData.lBuffer = "callerL" /\ audioData.rBuffer = "callerR"
       /\ \A i \in 0..(Half - 1) : IsFinite(OutL[i]) /\ IsFinite(OutR[i])

\* C3: with amplitude >= 0 and smoothingLevel > 0, after a call every entry at
\* [0, outputSize) of both caller-visible arrays is a non-negative number.
C3_OutputNonNegative ==
    (Returned /\ settings.amplitude >= 0 /\ settings.smoothingLevel > 0)
    => \A i \in 0..(settings.outputSize - 1) :
          /\ IsFinite(OutL[i]) /\ OutL[i].v >= 0
          /\ IsFinite(OutR[i]) /\ OutR[i].v >= 0

\* the weight sum of output index i, as kernelSmooth accumulates it
WeightSumAt(i) ==
    LET radius == Radius(impl.smoothingFactor, Half, impl.smoothedSize)
    IN  WeightSum(i, WindowMin(i, Half, impl.smoothedSize, radius),
                  WindowMax(i, Half, impl.smoothedSize, radius),
                  Half, impl.smoothedSize, impl.smoothingFactor)

\* C4: where the weights of an output index sum to zero, the value kernelSmooth
\* has written for that index is finite.
C4_ZeroWeightSumGuarded ==
    (Returned /\ SmoothRan)
    => \A i \in 0..(impl.smoothedSize - 1) :
          WeightSumAt(i) = 0 => IsFinite(OutL[i]) /\ IsFinite(OutR[i])

\* all of the first n entries of a equal c
Flat(a, n, c) == \A j \in 0..(n - 1) : a[j] = c

\* C5: for smoothingLevel > 0, smoothing a spectrum whose inputSize/2 bins all
\* equal c writes c to every output index in [0, outputSize).
C5_FlatStaysFlat ==
    [][(pc = "smooth" /\ settings.smoothingLevel > 0)
       => \A c \in {OutL[0]} :
             (IsFinite(c) /\ Flat(OutL, Half, c) /\ Flat(OutR, Half, c))
             => /\ Flat(heap'[audioData'.lBuffer], impl.smoothedSize, c)
                /\ Flat(heap'[audioData'.rBuffer], impl.smoothedSize, c)]_vars

\* the left channel of the stereo frame is a unit impulse and the right one is silent
LeftUnitImpulse(buffer, inputSize) ==
    \E n \in 0..(inputSize - 1) :
        \A i \in DOMAIN buffer : buffer[i] = (IF i = 2 * n THEN FP ELSE 0)

\* C6: in stereo mode, for a left unit impulse with a silent right channel,
\* magnitudes yields a right spectrum of 0 and a left spectrum of equal
\* magnitude at every bin in [0, inputSize/2), bin 0 included.
C6_ImpulseSeparated ==
    [][(pc = "magnitudes" /\ impl.channels = 2
          /\ LeftUnitImpulse(audioData.buffer, impl.inputSize))
       => \A b \in 0..(Half - 1) :
             /\ heap'[audioData.rBuffer][b] = Num(0)
             /\ heap'[audioData.lBuffer][b] = heap'[audioData.lBuffer][1]]_vars

\* C7: after magnitudes, bin 0 of each channel is the bin-1 value of the other
\* channel, in mono and in stereo; in mono the three values coincide.
C7_BinZeroFromOtherChannel ==
    pc = "equalise"
    => /\ OutL[0] = OutR[1]
       /\ OutR[0] = OutL[1]
       /\ impl.channels = 1 => OutL[0] = OutR[0] /\ OutR[0] = OutL[1]

C7_Witness ==
    /\ pc = "equalise" /\ impl.channels = 2
    /\ OutL[1] # OutR[1]
    /\ OutL[0] = OutR[1] /\ OutR[0] = OutL[1]

RECURSIVE DftSum(_, _, _, _)
DftSum(x, size, k, n) ==
    IF n >= size THEN Cx(0, 0)
    ELSE CAdd(CMul(x[n], ExpI((k * n) % size, size)), DftSum(x, size, k, n + 1))

Dft(x, size) == [k \in 0..(size - 1) |-> DftSum(x, size, k, 0)]

\* C9: for the power-of-two sizes 1, 2 and 4 and every array x of Gaussian
\* integers, fft leaves in first[k] the sum over n of x[n] exp(-2 pi i k n / N).
C9_FftIsDft ==
    [][pc = "fft"
       => AsComplex(audioData'.buffer, impl.inputSize)
          = Dft(AsComplex(audioData.buffer, impl.inputSize), impl.inputSize)]_vars

C9_Witness ==
    /\ pc = "fftDone" /\ impl.inputSize = 4
    /\ audioData.buffer[2] # audioData.buffer[4]
    /\ audioData.buffer[3] # 0

RECURSIVE BinSum(_, _)
\* the sum of the first n entries of a finite array
BinSum(a, n) == IF n = 0 THEN 0 ELSE a[n - 1].v + BinSum(a, n - 1)

\* v is the float quotient of sum by n
IsQuotient(v, sum, n) == IsFinite(v) /\ n * v.v <= sum /\ sum < n * (v.v + 1)

\* C10: when smooth is reached, equalise and then calculateVolume have run,
\* each volume is the sum of the equalised bins [0, inputSize/2) of its channel
\* divided by inputSize, and the smooth step leaves both volumes as they are.
C10_VolumeAfterEqualise ==
    [][pc = "smooth"
       => /\ stages = <<"windowFunction", "magnitudes", "equalise", "calculateVolume">>
          /\ IsQuotient(audioData.lVolume, BinSum(OutL, Half), impl.inputSize)
          /\ IsQuotient(audioData.rVolume, BinSum(OutR, Half), impl.inputSize)
          /\ audioData'.lVolume = audioData.lVolume
          /\ audioData'.rVolume = audioData.rVolume]_vars

C10_Witness ==
    /\ Returned /\ SmoothRan
    /\ audioData.lVolume.v > 0
    /\ audioData.lVolume.v # audioData.rVolume.v
    /\ audioData.lVolume.v * impl.inputSize <= BinSum(heap[impl.lBuffer], Half)

(***************************************************************************)
(* calculateVolume on arbitrary non-negative spectra                       *)
(***************************************************************************)
VolBinMax    == 2
VolScalarMax == 3

VolInputSizes == {2, 4, 8}

\* bins are whole numbers, so that every sum is divided by inputSize exactly
VolBins == {Num(b * FP) : b \in 0..VolBinMax}

\* the left array holds a spectrum a, the right one k times a
InitVol ==
    /\ \E n \in VolInputSizes :
          settings = [channels |-> 2, inputSize |-> n, outputSize |-> 1,
                      amplitude |-> FP, smoothingLevel |-> FP]
    /\ impl = Construct(settings)
    /\ \E a \in [0..(settings.inputSize \div 2 - 1) -> VolBins], k \in 0..VolScalarMax :
          heap = [x \in Addrs |->
                    IF x = "callerL" THEN a
                    ELSE IF x = "callerR" THEN [j \in DOMAIN a |-> Num(k * a[j].v)]
                    ELSE [j \in DOMAIN a |-> NaN]]
    /\ audioData = [buffer  |-> [i \in 0..(2 * settings.inputSize - 1) |-> 0],
                    lBuffer |-> "callerL", rBuffer |-> "callerR",
                    lVolume |-> Num(0), rVolume |-> Num(0)]
    /\ pc = "calculateVolume"
    /\ stages = <<"windowFunction", "magnitudes", "equalise">>
    /\ calls = 0
    /\ freed = {}
    /\ NotPipelineIdle

SpecVol == InitVol /\ [][CalculateVolume]_vars

\* C11: for a spectrum of non-negative bins calculateVolume yields a volume
\* >= 0, and the volume of k times a spectrum (k >= 0) is k times its volume.
C11_VolumeLinear ==
    [][pc = "calculateVolume"
       => /\ (\A j \in 0..(Half - 1) : OutL[j].v >= 0) => audioData'.lVolume.v >= 0
          /\ (\A j \in 0..(Half - 1) : OutR[j].v >= 0) => audioData'.rVolume.v >= 0
          /\ IsFinite(audioData'.lVolume) /\ IsFinite(audioData'.rVolume)
          /\ \A k \in 0..VolScalarMax :
                (\A j \in 0..(Half - 1) : OutR[j].v = k * OutL[j].v)
                => audioData'.rVolume.v = k * audioData'.lVolume.v]_vars

C11_Witness ==
    /\ pc = "smooth" /\ calls = 0 /\ impl.inputSize = 8
    /\ audioData.lVolume.v > 0
    /\ audioData.rVolume.v = 3 * audioData.lVolume.v
    /\ \A j \in 0..(Half - 1) : OutR[j].v = 3 * OutL[j].v

\* C12: the four pointers always reference the same four pairwise distinct
\* arrays and nothing is allocated; a left pointer is only ever exchanged with
\* the other left pointer; the caller holds its original arrays exactly when
\* the number of (smoothed) calls made so far is even.
C12_SwapKeepsBuffers ==
    /\ DOMAIN heap = Addrs
    /\ {audioData.lBuffer, impl.lBuffer} = {"callerL", "implL"}
    /\ {audioData.rBuffer, impl.rBuffer} = {"callerR", "implR"}
    /\ Cardinality({audioData.lBuffer, audioData.rBuffer, impl.lBuffer, impl.rBuffer}) = 4
    /\ Returned => SmoothRan
    /\ (audioData.lBuffer = "callerL" /\ audioData.rBuffer = "callerR") <=> (calls % 2 = 0)

C12_Witness ==
    /\ Returned /\ calls = 2 /\ SmoothRan
    /\ audioData.lBuffer = "callerL" /\ audioData.rBuffer = "callerR"
    /\ impl.lBuffer = "implL" /\ impl.rBuffer = "implR"

\* C13: cleanup frees exactly the two arrays the constructor allocated, never
\* an array the caller allocated, whatever the number of frames processed.
C13_CleanupFreesOwnBuffers ==
    pc = "destroyed" => freed = {"implL", "implR"}

\* the equalised spectrum of the call that has just returned
EqualisedL == IF SmoothRan THEN heap[impl.lBuffer] ELSE OutL
EqualisedR == IF SmoothRan THEN heap[impl.rBuffer] ELSE OutR

\* C14: with smoothing switched off (smoothingLevel = 0) output index i in
\* [0, outputSize) is the equalised bin i * (inputSize/2) / outputSize, a
\* resample without kernel, also when outputSize differs from inputSize/2.
C14_BypassResamples ==
    (Returned /\ settings.smoothingLevel = 0)
    => \A i \in 0..(settings.outputSize - 1) :
          /\ OutL[i] = EqualisedL[(i * Half) \div settings.outputSize]
          /\ OutR[i] = EqualisedR[(i * Half) \div settings.outputSize]

\* C17 as stated: for every amplitude >= 0, zero included, the weight that
\* equalise multiplies into bin n is strictly positive for every bin.
C17_WeightPositiveForAllAmplitudes ==
    (pc = "calculateVolume" /\ impl.amplitude >= 0)
    => \A n \in 0..(Half - 1) : EqWeight(n, impl.inputSize, impl.amplitude) > 0

\* C17 amended: for amplitude > 0 the weight of every bin is strictly positive
\* and equalise negates no bin; for amplitude = 0 the weight is zero and
\* equalise zeroes every bin.
C17_WeightPositiveForPositiveAmplitude ==
    pc = "calculateVolume"
    => \A n \in 0..(Half - 1) :
          /\ impl.amplitude > 0 => EqWeight(n, impl.inputSize, impl.amplitude) > 0
          /\ impl.amplitude = 0 => /\ EqWeight(n, impl.inputSize, impl.amplitude) = 0
                                   /\ OutL[n] = Num(0) /\ OutR[n] = Num(0)
          /\ IsFinite(OutL[n]) /\ OutL[n].v >= 0
          /\ IsFinite(OutR[n]) /\ OutR[n].v >= 0

C17_Witness ==
    /\ pc = "calculateVolume" /\ impl.amplitude > 0
    /\ OutL[0].v > 0 /\ OutL[1].v > OutL[0].v

(***************************************************************************)
(* kernelSmooth on its own, over size pairs and smoothing levels           *)
(***************************************************************************)
MaxSmoothOut == 5

SmoothInputSizes == {2, 4, 8}
SmoothLevels     == {FP \div 4, (3 * FP) \div 10, (2 * FP) \div 5, FP \div 2, FP}

\* source spectra: flat ones and ramps
SmoothSources(n) ==
    {[j \in 0..(n - 1) |-> Num(c + j * step)] : c \in {0, 100}, step \in {0, 50}}

InitSmooth ==
    /\ settings \in [channels : {1}, inputSize : SmoothInputSizes,
                     outputSize : 1..MaxSmoothOut, amplitude : {FP},
                     smoothingLevel : SmoothLevels]
    /\ impl = Construct(settings)
    /\ \E a \in SmoothSources(settings.inputSize \div 2) :
          heap = [x \in Addrs |->
                    [j \in 0..(Capacity(settings) - 1) |->
                        IF x \in {"callerL", "callerR"} /\ j \in DOMAIN a THEN a[j] ELSE NaN]]
    /\ audioData = [buffer  |-> [i \in 0..(settings.inputSize - 1) |-> 0],
                    lBuffer |-> "callerL", rBuffer |-> "callerR",
                    lVolume |-> Num(0), rVolume |-> Num(0)]
    /\ pc = "smooth"
    /\ stages = <<"windowFunction", "magnitudes", "equalise", "calculateVolume">>
    /\ calls = 0
    /\ freed = {}
    /\ NotPipelineIdle

SpecSmooth == InitSmooth /\ [][Smooth]_vars

\* the radius kernelSmooth derives, and the window of output index i
RadiusNow == Radius(impl.smoothingFactor, Half, impl.smoothedSize)
WindowOf(i) ==
    WindowMin(i, Half, impl.smoothedSize, RadiusNow)
    .. (WindowMax(i, Half, impl.smoothedSize, RadiusNow) - 1)

MaxLog2    == 16
MaxTracked == 3
BlockLen   == 32

ShuffleSizes == {Pow2(k) : k \in 0..MaxLog2}

\* the elements followed: the first few and the last one
Tracked(size) == {x \in 0..(size - 1) : x <= MaxTracked \/ x = size - 1}

InitShuffle ==
    /\ settings = [channels |-> 2, inputSize |-> 1, outputSize |-> 1,
                   amplitude |-> 0, smoothingLevel |-> FP]
    /\ impl = Construct(settings)
    /\ heap = [a \in Addrs |-> [i \in 0..(Capacity(settings) - 1) |-> NaN]]
    /\ audioData = [buffer  |-> [i \in 0..1 |-> 0],
                    lBuffer |-> "callerL", rBuffer |-> "callerR",
                    lVolume |-> Num(0), rVolume |-> Num(0)]
    /\ pc = "fft"
    /\ stages = <<>>
    /\ calls = 0
    /\ freed = {}
    /\ \E n \in ShuffleSizes : \E x \in Tracked(n) :
          shuffle = [pc |-> "loop", size |-> n, i |-> 0, from |-> x, at |-> x,
                     moves |-> 0, pass |-> 1]
    /\ sampler = SamplerIdle
    /\ renderer = RendererIdle

\* variant: the swap is made from both ends of a pair
AfterSwapBothWays(at, i, j) ==
    IF i # j /\ at = i THEN j
    ELSE IF i # j /\ at = j THEN i
    ELSE at

\* where the followed element is after iteration i of the for loop:
\* j = reverseBits(i, numBits); if (i < j) swap(first[i], first[j])
AfterSwap(at, i, j) ==
    IF i < j /\ at = i THEN j
    ELSE IF i < j /\ at = j THEN i
    ELSE at

\* the position of the followed element and the number of swaps that moved
\* it, after iterations i .. end - 1
RECURSIVE ShuffleIterations(_, _, _, _, _, _)
RECURSIVE ShuffleIteration(_, _, _, _, _, _, _)
ShuffleIteration(at, moves, next, size, numBits, i, end) ==
    ShuffleIterations(next, IF next # at THEN moves + 1 ELSE moves,
                      size, numBits, i + 1, end)

ShuffleIterations(at, moves, size, numBits, i, end) ==
    IF i >= end \/ at >= size \/ moves < 0 THEN <<at, moves>>
    ELSE ShuffleIteration(at, moves, AfterSwap(at, i, reverseBits(i, numBits)),
                          size, numBits, i, end)

\* the loop has reached index end with the followed element at el
ShuffleAt(el, end) == [shuffle EXCEPT !.i = end, !.at = el[1], !.moves = el[2]]

\* the next iterations of the for loop, at most BlockLen of them
ShuffleStep ==
    /\ shuffle.pc = "loop"
    /\ shuffle.i < shuffle.size
    /\ shuffle' = ShuffleAt(ShuffleIterations(shuffle.at, shuffle.moves, shuffle.size,
                                              NumBits(shuffle.size), shuffle.i,
                                              Min(shuffle.size, shuffle.i + BlockLen)),
                            Min(shuffle.size, shuffle.i + BlockLen))
    /\ UNCHANGED <<pipelineVars, sampler, renderer>>

\* i == size: the loop ends
ShuffleDone ==
    /\ shuffle.pc = "loop"
    /\ shuffle.i >= shuffle.size
    /\ shuffle' = [shuffle EXCEPT !.pc = "done"]
    /\ UNCHANGED <<pipelineVars, sampler, renderer>>

SpecShuffle == InitShuffle /\ [][ShuffleStep \/ ShuffleDone]_vars

\* bitReverseShuffle is called a second time on the array it has shuffled
ShuffleAgain ==
    /\ shuffle.pc = "done"
    /\ shuffle.pass = 1
    /\ shuffle' = [shuffle EXCEPT !.pc = "loop", !.i = 0, !.moves = 0, !.pass = 2]
    /\ UNCHANGED <<pipelineVars, sampler, renderer>>

SpecShuffleTwice == InitShuffle /\ [][ShuffleStep \/ ShuffleDone \/ ShuffleAgain]_vars

Log2(size) == CHOOSE k \in 0..(MaxLog2 + 1) : Pow2(k) = size

\* bit b of x
Bit(x, b) == (x \div Pow2(b)) % 2

RECURSIVE MirrorSum(_, _, _)
MirrorSum(x, n, b) ==
    IF b >= n THEN 0 ELSE Bit(x, b) * Pow2(n - 1 - b) + MirrorSum(x, n, b + 1)

\* the index whose n-bit representation is the reverse of x's
Mirror(x, n) == MirrorSum(x, n, 0)

\* C20 as stated: for every power-of-two size, 2^16 and above included, the
\* shuffle leaves the element that started at index i at the index whose
\* log2(size)-bit representation is the reverse of i's.
C20_ShuffleReversesEverySize ==
    shuffle.pc = "done" => shuffle.at = Mirror(shuffle.from, Log2(shuffle.size))

\* C20 amended: for every power-of-two size below 2^16 the shuffle leaves the
\* element that started at index i at the index whose log2(size)-bit
\* representation is the reverse of i's.
C20_ShuffleReversesBelow65536 ==
    (shuffle.pc = "done" /\ shuffle.size < Pow2(16))
    => shuffle.at = Mirror(shuffle.from, Log2(shuffle.size))

C20_Witness ==
    /\ shuffle.pc = "done" /\ shuffle.size = Pow2(15)
    /\ shuffle.from = 1 /\ shuffle.at = Pow2(14)

(***************************************************************************)
(* AudioSamplerImpl: the capture thread (run) and the caller's thread      *)
(* (copyData, destructor) over the chunk ring                              *)
(***************************************************************************)
MaxChunks == 3
MaxReads  == 3

AudioChannelCounts == {1, 2, 3}
AudioSampleSizes   == {1, 2}

\* AudioSettings as handed to the constructor
AudioSettingsSet ==
    {[channels |-> c, sampleSize |-> s, bufferSize |-> s * k] :
        c \in AudioChannelCounts, s \in AudioSampleSizes, k \in 1..MaxChunks}

\* bufferSize / sampleSize
NumChunks(st) == st.bufferSize \div st.sampleSize

\* the object after init(): chunk 0 is pSampleBuffer's array, chunks 1..n the
\* ring's; content is the number of the read that filled a chunk, 0 when the
\* chunk still holds what new float[] left there
SamplerInit(as, pulseOk) ==
    LET st == [channels   |-> as.channels,
               sampleSize |-> as.sampleSize * as.channels,
               bufferSize |-> as.bufferSize * as.channels]
    IN  [settings      |-> st,
         stopped       |-> ~pulseOk,
         modified      |-> FALSE,
         pSampleBuffer |-> 0,
         ppAudioBuffer |-> [c \in 0..(NumChunks(st) - 1) |-> c + 1],
         content       |-> [c \in 0..NumChunks(st) |-> 0],
         audioMutexLock |-> "free",
         reads         |-> 0,
         runPc         |-> "while",
         runI          |-> 0,
         mainPc        |-> "idle",
         mainI         |-> 0,
         deleted       |-> {},
         pulseFailed     |-> ~pulseOk,
         readFailed      |-> FALSE,
         readsAtStop     |-> -1,
         rotationsAtStop |-> -1]

InitAudio ==
    /\ settings = [channels |-> 2, inputSize |-> 1, outputSize |-> 1,
                   amplitude |-> 0, smoothingLevel |-> FP]
    /\ impl = Construct(settings)
    /\ heap = [a \in Addrs |-> [i \in 0..(Capacity(settings) - 1) |-> NaN]]
    /\ pc = "idle"
    /\ stages = <<>>
    /\ calls = 0
    /\ freed = {}
    /\ shuffle = ShuffleIdle
    /\ renderer = RendererIdle
    /\ \E as \in AudioSettingsSet, pulseOk \in BOOLEAN :
          /\ sampler = SamplerInit(as, pulseOk)
          /\ audioData = [buffer  |-> [i \in 0..(2 * as.bufferSize - 1) |-> -1],
                          lBuffer |-> "callerL", rBuffer |-> "callerR",
                          lVolume |-> Num(0), rVolume |-> Num(0)]

audioOnly == <<settings, impl, heap, pc, stages, calls, freed, shuffle, renderer>>

\* variant: the loop does not test stopped
RunWhileForever ==
    /\ sampler.runPc = "while"
    /\ sampler' = [sampler EXCEPT !.runPc = "read"]
    /\ UNCHANGED <<audioOnly, audioData>>

\* while (!this->stopped)
RunWhile ==
    /\ sampler.runPc = "while"
    /\ sampler' = [sampler EXCEPT !.runPc = IF sampler.stopped THEN "exited" ELSE "read"]
    /\ UNCHANGED <<audioOnly, audioData>>

\* pa_simple_read returns >= 0: pSampleBuffer's array holds the next chunk
RunRead ==
    /\ sampler.runPc = "read"
    /\ sampler.reads < MaxReads
    /\ sampler' = [sampler EXCEPT
                      !.reads = @ + 1,
                      !.content[sampler.pSampleBuffer] = sampler.reads + 1,
                      !.runPc = "lock"]
    /\ UNCHANGED <<audioOnly, audioData>>

\* variant: the break after stopped = true is missing
RunReadFailNoBreak ==
    /\ sampler.runPc = "read"
    /\ sampler' = [sampler EXCEPT !.stopped = TRUE, !.readFailed = TRUE, !.runPc = "lock"]
    /\ UNCHANGED <<audioOnly, audioData>>

\* pa_simple_read returns < 0: stopped = true; break
RunReadFail ==
    /\ sampler.runPc = "read"
    /\ sampler' = [sampler EXCEPT !.stopped = TRUE, !.readFailed = TRUE, !.runPc = "exited"]
    /\ UNCHANGED <<audioOnly, audioData>>

\* variant: the capture thread enters without waiting for the mutex
RunLockNoWait ==
    /\ sampler.runPc = "lock"
    /\ sampler' = [sampler EXCEPT !.audioMutexLock = "run", !.runPc = "rotate", !.runI = 0]
    /\ UNCHANGED <<audioOnly, audioData>>

\* audioMutexLock.lock() in run
RunLock ==
    /\ sampler.runPc = "lock"
    /\ sampler.audioMutexLock = "free"
    /\ sampler' = [sampler EXCEPT !.audioMutexLock = "run", !.runPc = "rotate", !.runI = 0]
    /\ UNCHANGED <<audioOnly, audioData>>

\* variant: the loop runs but exchanges nothing
RunSwapSkip ==
    /\ sampler.runPc = "rotate"
    /\ sampler.runI < NumChunks(sampler.settings) - 1
    /\ sampler' = [sampler EXCEPT !.runI = @ + 1]
    /\ UNCHANGED <<audioOnly, audioData>>

\* for (i < bufferSize/sampleSize - 1) swap(ppAudioBuffer[i], ppAudioBuffer[i+1])
RunSwap ==
    /\ sampler.runPc = "rotate"
    /\ sampler.runI < NumChunks(sampler.settings) - 1
    /\ LET i == sampler.runI
       IN  sampler' = [sampler EXCEPT
                          !.ppAudioBuffer[i]     = sampler.ppAudioBuffer[i + 1],
                          !.ppAudioBuffer[i + 1] = sampler.ppAudioBuffer[i],
                          !.runI = i + 1]
    /\ UNCHANGED <<audioOnly, audioData>>

\* variant: the new chunk's pointer is assigned to the last slot, not exchanged
RunSwapLastAssign ==
    /\ sampler.runPc = "rotate"
    /\ sampler.runI >= NumChunks(sampler.settings) - 1
    /\ LET last == NumChunks(sampler.settings) - 1
       IN  sampler' = [sampler EXCEPT
                          !.ppAudioBuffer[last] = sampler.pSampleBuffer,
                          !.runPc = "unlock"]
    /\ UNCHANGED <<audioOnly, audioData>>

\* swap(ppAudioBuffer[bufferSize/sampleSize - 1], pSampleBuffer)
RunSwapLast ==
    /\ sampler.runPc = "rotate"
    /\ sampler.runI >= NumChunks(sampler.settings) - 1
    /\ LET last == NumChunks(sampler.settings) - 1
       IN  sampler' = [sampler EXCEPT
                          !.ppAudioBuffer[last] = sampler.pSampleBuffer,
                          !.pSampleBuffer       = sampler.ppAudioBuffer[last],
                          !.runPc = "unlock"]
    /\ UNCHANGED <<audioOnly, audioData>>

\* audioMutexLock.unlock() in run
RunUnlock ==
    /\ sampler.runPc = "unlock"
    /\ sampler' = [sampler EXCEPT !.audioMutexLock = "free", !.runPc = "modified"]
    /\ UNCHANGED <<audioOnly, audioData>>

\* this->modified = true, and back to the loop condition
RunSetModified ==
    /\ sampler.runPc = "modified"
    /\ sampler' = [sampler EXCEPT !.modified = TRUE, !.runPc = "while"]
    /\ UNCHANGED <<audioOnly, audioData>>

\* audioMutexLock.lock() in copyData
CopyDataLock ==
    /\ sampler.mainPc = "idle"
    /\ sampler.audioMutexLock = "free"
    /\ sampler' = [sampler EXCEPT !.audioMutexLock = "main", !.mainPc = "copy", !.mainI = 0]
    /\ UNCHANGED <<audioOnly, audioData>>

\* the float copyData reads for loop index i
RingSample(i) ==
    sampler.content[sampler.ppAudioBuffer[i \div sampler.settings.sampleSize]]

\* one iteration of the for loop of copyData
CopyDataElement ==
    /\ sampler.mainPc = "copy"
    /\ sampler.mainI < sampler.settings.bufferSize
    /\ LET i == sampler.mainI
       IN  /\ audioData' =
                 IF sampler.settings.channels = 1
                 THEN [audioData EXCEPT !.buffer[2 * i]     = RingSample(i),
                                        !.buffer[2 * i + 1] = RingSample(i)]
                 ELSE IF sampler.settings.channels = 2
                 THEN [audioData EXCEPT !.buffer[i] = RingSample(i)]
                 ELSE audioData
           /\ sampler' = [sampler EXCEPT
                             !.stopped = IF sampler.settings.channels \in {1, 2} THEN @ ELSE TRUE,
                             !.mainI = i + 1]
    /\ UNCHANGED audioOnly

\* audioMutexLock.unlock() in copyData
CopyDataUnlock ==
    /\ sampler.mainPc = "copy"
    /\ sampler.mainI >= sampler.settings.bufferSize
    /\ sampler' = [sampler EXCEPT !.audioMutexLock = "free", !.mainPc = "clear"]
    /\ UNCHANGED <<audioOnly, audioData>>

\* modified = false, and copyData returns
CopyDataClear ==
    /\ sampler.mainPc = "clear"
    /\ sampler' = [sampler EXCEPT !.modified = FALSE, !.mainPc = "idle"]
    /\ UNCHANGED <<audioOnly, audioData>>

\* ~AudioSamplerImpl: stopped = true; the reads and rotations made so far are
\* remembered
SamplerStop ==
    /\ sampler.mainPc = "idle"
    /\ sampler' = [sampler EXCEPT
                      !.stopped = TRUE, !.mainPc = "join",
                      !.readsAtStop = sampler.reads,
                      !.rotationsAtStop =
                          sampler.reads - (IF sampler.runPc \in {"lock", "rotate"} THEN 1 ELSE 0)]
    /\ UNCHANGED <<audioOnly, audioData>>

\* audioThread.join() returns once run has returned
SamplerJoin ==
    /\ sampler.mainPc = "join"
    /\ sampler.runPc = "exited"
    /\ sampler' = [sampler EXCEPT !.mainPc = "cleanup"]
    /\ UNCHANGED <<audioOnly, audioData>>

\* cleanup(): delete[] every ring chunk and pSampleBuffer
SamplerCleanup ==
    /\ sampler.mainPc = "cleanup"
    /\ sampler' = [sampler EXCEPT
                      !.deleted = {sampler.ppAudioBuffer[c] :
                                      c \in 0..(NumChunks(sampler.settings) - 1)}
                                  \cup {sampler.pSampleBuffer},
                      !.mainPc = "destroyed"]
    /\ UNCHANGED <<audioOnly, audioData>>

NextAudio ==
    \/ RunWhile \/ RunRead \/ RunReadFail \/ RunLock \/ RunSwap \/ RunSwapLast
    \/ RunUnlock \/ RunSetModified
    \/ CopyDataLock \/ CopyDataElement \/ CopyDataUnlock \/ CopyDataClear
    \/ SamplerStop \/ SamplerJoin \/ SamplerCleanup

SpecAudio == InitAudio /\ [][NextAudio]_vars

\* the capture thread keeps being scheduled, every pa_simple_read call returns
\* (with data or with an error), and the destructor's thread keeps running
FairAudio ==
    /\ WF_vars(RunWhile) /\ WF_vars(RunRead \/ RunReadFail)
    /\ WF_vars(RunLock) /\ WF_vars(RunSwap) /\ WF_vars(RunSwapLast)
    /\ WF_vars(RunUnlock) /\ WF_vars(RunSetModified)
    /\ WF_vars(SamplerJoin) /\ WF_vars(SamplerCleanup)

SpecAudioFair == SpecAudio /\ FairAudio

\* the ring after k completed rotations: chunk c holds read k - n + 1 + c
RingAfter(k, c) == Max(0, k - NumChunks(sampler.settings) + 1 + c)

\* what copyData left in audioData.buffer for loop index i
Copied(i) ==
    IF sampler.settings.channels = 1
    THEN <<audioData.buffer[2 * i], audioData.buffer[2 * i + 1]>>
    ELSE <<audioData.buffer[i], audioData.buffer[i]>>

RunInCriticalSection  == sampler.runPc \in {"rotate", "unlock"}
CopyInCriticalSection == sampler.mainPc = "copy"

\* C15: the capture thread's rotation and copyData's read exclude each other
\* under audioMutexLock; the mutex is held exactly inside the two critical
\* sections, so it is released on every path out of them; while copyData
\* copies the ring is not being rotated, and what it has copied is the ring
\* after a whole number of completed rotations.
C15_RotationExcludesCopy ==
    /\ ~(RunInCriticalSection /\ CopyInCriticalSection)
    /\ sampler.audioMutexLock = "run"  <=> RunInCriticalSection
    /\ sampler.audioMutexLock = "main" <=> CopyInCriticalSection
    /\ (sampler.mainPc \in {"copy", "clear"} /\ sampler.settings.channels \in {1, 2})
       => \E k \in 0..sampler.reads :
             \A i \in 0..(sampler.mainI - 1) :
                Copied(i) = <<RingAfter(k, i \div sampler.settings.sampleSize),
                              RingAfter(k, i \div sampler.settings.sampleSize)>>

C15_Witness ==
    /\ sampler.mainPc = "clear"
    /\ sampler.runPc = "lock"
    /\ sampler.settings.channels = 2
    /\ NumChunks(sampler.settings) = 2
    /\ sampler.reads = 3
    /\ Copied(0)[1] = 1 /\ Copied(sampler.settings.bufferSize - 1)[1] = 2

(***************************************************************************)
(* RendererImpl::drawFrame and updateAudioBuffers                          *)
(***************************************************************************)
MAX_FRAMES_IN_FLIGHT == 2

NumImages    == 2
MaxAudioSize == 2

AcquireResults == {"VK_SUCCESS", "VK_SUBOPTIMAL_KHR", "VK_ERROR_OUT_OF_DATE_KHR", "error"}
PresentResults == {"VK_SUCCESS", "VK_SUBOPTIMAL_KHR", "VK_ERROR_OUT_OF_DATE_KHR", "error"}

\* the buffers of one swapchain image as createAudioBuffers leaves them
UnwrittenBuffers(audioSize) ==
    [lVolume |-> NaN, rVolume |-> NaN,
     l |-> [i \in 0..(audioSize - 1) |-> NaN],
     r |-> [i \in 0..(audioSize - 1) |-> NaN]]

\* the object after construction
RendererInit(audioSize) ==
    [audioSize    |-> audioSize,
     currentFrame |-> 0,
     shouldClose  |-> FALSE,
     pc           |-> "idle",
     imageIndex   |-> 0,
     ret          |-> "none",
     copies       |-> 0,
     submits      |-> 0,
     gpu          |-> [img \in 0..(NumImages - 1) |-> UnwrittenBuffers(audioSize)],
     gpuAtEntry   |-> [img \in 0..(NumImages - 1) |-> UnwrittenBuffers(audioSize)]]

\* the output arrays a caller may pass: the two arrays of either generation
AudioArrays == [a \in Addrs |->
                  [i \in 0..(MaxAudioSize - 1) |->
                      Num(i + (CASE a = "callerL" -> 100 [] a = "callerR" -> 200
                                 [] a = "implL"   -> 300 [] OTHER         -> 400))]]

\* the AudioData values a caller may pass to drawFrame
AudioDataSet ==
    {[buffer  |-> [i \in 0..1 |-> 0], lBuffer |-> p[1], rBuffer |-> p[2],
      lVolume |-> Num(v), rVolume |-> Num(v + FP)] :
        p \in {<<"callerL", "callerR">>, <<"implL", "implR">>}, v \in {0, FP}}

InitRender ==
    /\ settings = [channels |-> 2, inputSize |-> 1, outputSize |-> 1,
                   amplitude |-> 0, smoothingLevel |-> FP]
    /\ impl = Construct(settings)
    /\ heap = AudioArrays
    /\ audioData \in AudioDataSet
    /\ pc = "idle"
    /\ stages = <<>>
    /\ calls = 0
    /\ freed = {}
    /\ shuffle = ShuffleIdle
    /\ sampler = SamplerIdle
    /\ \E n \in 1..MaxAudioSize : renderer = RendererInit(n)

renderOnly == <<settings, impl, heap, pc, stages, calls, freed, shuffle, sampler>>

\* between two drawFrame calls the caller has new output to show
ProduceAudio ==
    /\ renderer.pc = "idle"
    /\ audioData' \in AudioDataSet \ {audioData}
    /\ UNCHANGED <<renderOnly, renderer>>

\* glfwPollEvents(); if (glfwWindowShouldClose(window)) return false;
DrawFramePoll ==
    /\ renderer.pc = "idle"
    /\ \E closeEvent \in BOOLEAN :
          LET close == renderer.shouldClose \/ closeEvent
          IN  renderer' = [renderer EXCEPT
                              !.shouldClose = close,
                              !.copies = 0, !.submits = 0,
                              !.gpuAtEntry = renderer.gpu,
                              !.ret = IF close THEN "closed" ELSE "none",
                              !.pc  = IF close THEN "idle" ELSE "acquire"]
    /\ UNCHANGED <<renderOnly, audioData>>

\* vkWaitForFences, vkAcquireNextImageKHR and the switch on its result
AcquireNextImage ==
    /\ renderer.pc = "acquire"
    /\ \E result \in AcquireResults, idx \in 0..(NumImages - 1) :
          renderer' =
             IF result \in {"VK_SUCCESS", "VK_SUBOPTIMAL_KHR"}
             THEN [renderer EXCEPT !.imageIndex = idx, !.pc = "update"]
             ELSE IF result = "VK_ERROR_OUT_OF_DATE_KHR"
             THEN [renderer EXCEPT !.ret = "outOfDateAtAcquire", !.pc = "idle"]
             ELSE [renderer EXCEPT !.ret = "acquireFailed", !.pc = "thrown"]
    /\ UNCHANGED <<renderOnly, audioData>>

\* what updateAudioBuffers writes into the buffers of one image
CopyOf(ad, audioSize) ==
    [lVolume |-> ad.lVolume, rVolume |-> ad.rVolume,
     l |-> [i \in 0..(audioSize - 1) |-> heap[ad.lBuffer][i]],
     r |-> [i \in 0..(audioSize - 1) |-> heap[ad.rBuffer][i]]]

\* variant: the buffers are indexed by the member currentFrame, which the
\* parameter of the same name shadows
UpdateAudioBuffersOfFrame ==
    /\ renderer.pc = "update"
    /\ renderer' = [renderer EXCEPT
                       !.gpu[renderer.currentFrame] = CopyOf(audioData, renderer.audioSize),
                       !.copies = @ + 1,
                       !.pc = "submit"]
    /\ UNCHANGED <<renderOnly, audioData>>

\* updateAudioBuffers(audioData, imageIndex)
UpdateAudioBuffers ==
    /\ renderer.pc = "update"
    /\ renderer' = [renderer EXCEPT
                       !.gpu[renderer.imageIndex] = CopyOf(audioData, renderer.audioSize),
                       !.copies = @ + 1,
                       !.pc = "submit"]
    /\ UNCHANGED <<renderOnly, audioData>>

\* vkResetFences, vkQueueSubmit of commandBuffers[imageIndex]
QueueSubmit ==
    /\ renderer.pc = "submit"
    /\ \E ok \in BOOLEAN :
          renderer' =
             IF ok THEN [renderer EXCEPT !.submits = @ + 1, !.pc = "present"]
             ELSE [renderer EXCEPT !.ret = "submitFailed", !.pc = "thrown"]
    /\ UNCHANGED <<renderOnly, audioData>>

\* variant: currentFrame advances before the switch on the present result
QueuePresentAdvanceFirst ==
    /\ renderer.pc = "present"
    /\ \E result \in PresentResults :
          renderer' =
             IF result = "VK_SUCCESS"
             THEN [renderer EXCEPT
                      !.currentFrame = (@ + 1) % MAX_FRAMES_IN_FLIGHT,
                      !.ret = "presented", !.pc = "idle"]
             ELSE IF result \in {"VK_ERROR_OUT_OF_DATE_KHR", "VK_SUBOPTIMAL_KHR"}
             THEN [renderer EXCEPT
                      !.currentFrame = (@ + 1) % MAX_FRAMES_IN_FLIGHT,
                      !.ret = "recreatedAtPresent", !.pc = "idle"]
             ELSE [renderer EXCEPT !.ret = "presentFailed", !.pc = "thrown"]
    /\ UNCHANGED <<renderOnly, audioData>>

\* vkQueuePresentKHR, the switch on its result and the advance of currentFrame
QueuePresent ==
    /\ renderer.pc = "present"
    /\ \E result \in PresentResults :
          renderer' =
             IF result = "VK_SUCCESS"
             THEN [renderer EXCEPT
                      !.currentFrame = (@ + 1) % MAX_FRAMES_IN_FLIGHT,
                      !.ret = "presented", !.pc = "idle"]
             ELSE IF result \in {"VK_ERROR_OUT_OF_DATE_KHR", "VK_SUBOPTIMAL_KHR"}
             THEN [renderer EXCEPT !.ret = "recreatedAtPresent", !.pc = "idle"]
             ELSE [renderer EXCEPT !.ret = "presentFailed", !.pc = "thrown"]
    /\ UNCHANGED <<renderOnly, audioData>>

NextRender ==
    \/ ProduceAudio \/ DrawFramePoll \/ AcquireNextImage
    \/ UpdateAudioBuffers \/ QueueSubmit \/ QueuePresent

SpecRender == InitRender /\ [][NextRender]_vars

\* the current or last drawFrame call has submitted its command buffer
Submitted == renderer.submits > 0

\* C16: a drawFrame call that submits has first copied lVolume, rVolume and
\* the first audioSize elements of both output arrays, unmodified and exactly
\* once, into the buffers of the acquired image (and into no other image); a
\* call that returns at the window-closed test or at an out-of-date acquire
\* has copied and submitted nothing.
C16_CopyOnceBeforeSubmit ==
    /\ renderer.copies <= 1 /\ renderer.submits <= renderer.copies
    /\ renderer.pc = "submit" => renderer.copies = 1 /\ renderer.submits = 0
    /\ renderer.pc \in {"submit", "present"}
       => renderer.gpu[renderer.imageIndex] = CopyOf(audioData, renderer.audioSize)
    /\ (Submitted \/ renderer.pc = "submit")
       => \A img \in 0..(NumImages - 1) :
             img # renderer.imageIndex => renderer.gpu[img] = renderer.gpuAtEntry[img]
    /\ (renderer.pc = "idle" /\ renderer.ret \in {"closed", "outOfDateAtAcquire"})
       => /\ renderer.copies = 0 /\ renderer.submits = 0
          /\ renderer.gpu = renderer.gpuAtEntry

C16_Witness ==
    /\ renderer.pc = "idle" /\ renderer.ret = "presented" /\ Submitted
    /\ renderer.currentFrame = 0 /\ renderer.imageIndex = 1
    /\ audioData.lBuffer = "implL"
    /\ renderer.gpu[1].l[0] = Num(300) /\ renderer.gpu[1].rVolume = audioData.rVolume
    /\ renderer.gpu[0].l[0] = Num(100)

\* C21: for every power-of-two size 2^k with 0 <= k <= 15 the mask cascade of
\* bitReverseShuffle yields numBits = k = log2(size).
C21_CascadeIsLog2 ==
    shuffle.size <= Pow2(15)
    => /\ NumBits(shuffle.size) = Log2(shuffle.size)
       /\ Pow2(NumBits(shuffle.size)) = shuffle.size

C21_Witness ==
    /\ shuffle.pc = "done" /\ shuffle.size = Pow2(15)
    /\ NumBits(shuffle.size) = 15
    /\ shuffle.from = Pow2(15) - 1 /\ shuffle.at = shuffle.from

\* the loop indices of the block that the next ShuffleStep runs
BlockIndices == shuffle.i .. (Min(shuffle.size, shuffle.i + BlockLen) - 1)

\* reverseBits(val, n) is its own inverse on the block's indices, and the
\* followed element is where one or two passes of pair swaps leave it
Reversible(i, r, n) == r < Pow2(n) /\ reverseBits(r, n) = i

MovedOnce(r) ==
    /\ shuffle.pass = 1 => shuffle.at = r
    /\ shuffle.pass = 2 => shuffle.at = shuffle.from
    /\ shuffle.moves = IF r = shuffle.from THEN 0 ELSE 1

InvolutionWith(n) ==
    /\ shuffle.pc = "loop" => \A i \in BlockIndices : Reversible(i, reverseBits(i, n), n)
    /\ shuffle.pc = "done" => MovedOnce(reverseBits(shuffle.from, n))

\* C22: for every n in [0, 15] and every i in [0, 2^n), reverseBits(i, n) is
\* below 2^n and reversing it again gives i; so one pass of bitReverseShuffle
\* moves an element once to the reversed index, or not at all when its index
\* is its own reverse, and a second pass puts every element back.
C22_ReverseIsInvolution ==
    shuffle.size <= Pow2(15) => InvolutionWith(NumBits(shuffle.size))

C22_Witness ==
    /\ shuffle.pc = "done" /\ shuffle.pass = 2
    /\ shuffle.size = Pow2(15)
    /\ shuffle.from = 3 /\ shuffle.at = 3 /\ shuffle.moves = 1

\* the ring's chunk indices, and the chunk copyData reads at loop index i
ChunkIndices == 0..(NumChunks(sampler.settings) - 1)
ChunkOf(i)   == i \div sampler.settings.sampleSize

\* C23: pa_simple_read fills pSampleBuffer's array outside the lock, yet
\* pSampleBuffer is never one of the ring's chunk pointers and the ring's
\* chunk pointers are pairwise distinct, so the chunk copyData is about to
\* read is never the one the capture thread is filling.
C23_SampleBufferOutsideRing ==
    /\ \A c \in ChunkIndices : sampler.ppAudioBuffer[c] # sampler.pSampleBuffer
    /\ \A c, d \in ChunkIndices :
          c # d => sampler.ppAudioBuffer[c] # sampler.ppAudioBuffer[d]
    /\ (sampler.runPc = "read" /\ sampler.mainPc = "copy"
          /\ sampler.mainI < sampler.settings.bufferSize)
       => sampler.ppAudioBuffer[ChunkOf(sampler.mainI)] # sampler.pSampleBuffer

C23_Witness ==
    /\ sampler.runPc = "read" /\ sampler.mainPc = "copy"
    /\ sampler.mainI > 0 /\ sampler.mainI < sampler.settings.bufferSize
    /\ sampler.reads = 2
    /\ sampler.pSampleBuffer # 0
    /\ NumChunks(sampler.settings) = 3

\* the rotations run has completed: every successful read but one that is
\* still waiting for the lock or being rotated in
Rotations ==
    sampler.reads - (IF sampler.runPc \in {"lock", "rotate"} THEN 1 ELSE 0)

\* C24: after k successful reads and rotations the ring holds the min(k, n)
\* most recent chunks in arrival order, newest last (older slots still hold
\* their initial chunks), and copyData emits them in that order.
C24_RingHoldsNewestInOrder ==
    /\ sampler.runPc # "rotate"
       => \A c \in ChunkIndices :
             sampler.content[sampler.ppAudioBuffer[c]] = RingAfter(Rotations, c)
    /\ (sampler.mainPc = "copy" /\ sampler.settings.channels \in {1, 2})
       => \A i \in 0..(sampler.mainI - 1) :
             Copied(i) = <<RingAfter(Rotations, ChunkOf(i)), RingAfter(Rotations, ChunkOf(i))>>

C24_Witness ==
    /\ sampler.mainPc = "copy" /\ sampler.mainI = sampler.settings.bufferSize
    /\ sampler.settings.channels = 1
    /\ NumChunks(sampler.settings) = 2
    /\ sampler.reads = 3 /\ Rotations = 3
    /\ Copied(0) = <<2, 2>> /\ Copied(sampler.settings.bufferSize - 1) = <<3, 3>>

\* the newest read the ring holds, and the newest one that the last completed
\* copyData call copied (-1 before the first call)
NewestInstalled == sampler.content[sampler.ppAudioBuffer[NumChunks(sampler.settings) - 1]]
NewestCopied    == Copied(sampler.settings.bufferSize - 1)[1]

\* C25: no capture update is lost by the modified flag: when run has installed
\* a chunk and set the flag, and no copyData call is in progress, modified is
\* true unless a completed copyData call has copied that chunk.
C25_NoUpdateLost ==
    (/\ sampler.runPc \in {"while", "read", "exited"}
     /\ sampler.mainPc = "idle"
     /\ sampler.settings.channels \in {1, 2}
     /\ NewestInstalled >= 1
     /\ NewestInstalled > NewestCopied)
    => sampler.modified

\* the destructor has set stopped
Stopping == sampler.mainPc \in {"join", "cleanup", "destroyed"}

\* C26: once the destructor has set stopped, the capture thread makes at most
\* one further read and one further rotation; the buffers are deleted only
\* after the thread has exited; and, every pa_simple_read call returning, the
\* join returns and the destructor finishes.
C26_StopTerminates ==
    /\ [](Stopping => /\ sampler.reads - sampler.readsAtStop <= 1
                      /\ Rotations - sampler.rotationsAtStop <= 1)
    /\ [](sampler.deleted # {} => sampler.runPc = "exited")
    /\ [](sampler.mainPc \in {"cleanup", "destroyed"} => sampler.runPc = "exited")
    /\ (sampler.mainPc = "join") ~> (sampler.mainPc = "destroyed")

C26_Witness ==
    /\ sampler.mainPc = "destroyed" /\ sampler.runPc = "exited"
    /\ sampler.reads = sampler.readsAtStop + 1
    /\ Rotations = sampler.rotationsAtStop + 1
    /\ sampler.reads = 2
    /\ Cardinality(sampler.deleted) = NumChunks(sampler.settings) + 1

\* the steps that set stopped: a failed read, an unsupported channel count
\* met by copyData, the destructor
SetsStopped ==
    \/ sampler.runPc = "read" /\ sampler'.readFailed
    \/ sampler.mainPc = "copy" /\ sampler.settings.channels \notin {1, 2}
    \/ sampler.mainPc = "idle" /\ sampler'.mainPc = "join"

\* C27: stopped never goes back to false and becomes true only by a failed
\* pa_simple_new (before the thread starts), a failed pa_simple_read, an
\* unsupported channel count in copyData or destruction; after a failed
\* pa_simple_new the thread never reads; after a failed pa_simple_read the
\* thread has left the loop, the ring is not rotated and modified is not set.
C27_StoppedMonotonic ==
    [][/\ sampler.stopped => sampler'.stopped
       /\ (~sampler.stopped /\ sampler'.stopped) => SetsStopped
       /\ sampler.pulseFailed
          => sampler.stopped /\ sampler'.reads = 0 /\ sampler'.runPc \in {"while", "exited"}
       /\ sampler'.readFailed
          => /\ sampler'.runPc = "exited"
             /\ sampler'.ppAudioBuffer = sampler.ppAudioBuffer
             /\ sampler'.pSampleBuffer = sampler.pSampleBuffer
             /\ sampler'.modified => sampler.modified]_vars

C27_Witness ==
    /\ sampler.readFailed /\ sampler.stopped /\ ~sampler.pulseFailed
    /\ sampler.runPc = "exited"
    /\ sampler.reads = 2 /\ Rotations = 2
    /\ sampler.mainPc = "clear"

(***************************************************************************)
(* The indices that copyData and run compute, for any AudioSettings        *)
(***************************************************************************)
MaxRawSampleSize == 3
MaxRawBufferSize == 4
MaxWildSteps     == 2

\* a - 1 in size_t: top stands for SIZE_MAX, which 0 - 1 wraps to
SizeMinusOne(a) == IF a > 0 THEN [top |-> FALSE, v |-> a - 1] ELSE [top |-> TRUE, v |-> 0]
SizeOf(a)       == [top |-> FALSE, v |-> a]
SizeLess(i, b)  == b.top \/ i < b.v

\* the object after init() for any sizes, about to run copyData or one
\* rotation of run
InitAudioSizes ==
    /\ settings = [channels |-> 2, inputSize |-> 1, outputSize |-> 1,
                   amplitude |-> 0, smoothingLevel |-> FP]
    /\ impl = Construct(settings)
    /\ heap = [a \in Addrs |-> [i \in 0..(Capacity(settings) - 1) |-> NaN]]
    /\ audioData = [buffer  |-> [i \in 0..1 |-> 0],
                    lBuffer |-> "callerL", rBuffer |-> "callerR",
                    lVolume |-> Num(0), rVolume |-> Num(0)]
    /\ pc = "idle"
    /\ stages = <<>>
    /\ calls = 0
    /\ freed = {}
    /\ shuffle = ShuffleIdle
    /\ renderer = RendererIdle
    /\ \E c \in {1, 2}, s \in 1..MaxRawSampleSize, b \in 1..MaxRawBufferSize,
          f \in {"copyData", "run"} :
          sampler = [settings |-> [channels |-> c, sampleSize |-> s * c, bufferSize |-> b * c],
                     fn       |-> f,
                     pc       |-> "loop",
                     i        |-> 0,
                     accessed |-> {}]

\* after an access outside the ring or a chunk the program may go on or die
AfterAccess(acc, next) ==
    IF \A a \in acc : /\ ~a.chunk.top /\ a.chunk.v < NumChunks(sampler.settings)
                      /\ a.offset < sampler.settings.sampleSize
    THEN {next}
    ELSE {next, "crashed"}

\* one iteration of copyData's loop: ppAudioBuffer[i/sampleSize][i%sampleSize]
CopyDataIndex ==
    /\ sampler.fn = "copyData" /\ sampler.pc = "loop"
    /\ sampler.i < sampler.settings.bufferSize
    /\ LET acc == {[chunk  |-> SizeOf(sampler.i \div sampler.settings.sampleSize),
                    offset |-> sampler.i % sampler.settings.sampleSize]}
       IN  \E p \in AfterAccess(acc, "loop") :
              sampler' = [sampler EXCEPT !.accessed = acc, !.i = @ + 1, !.pc = p]
    /\ UNCHANGED <<audioOnly, audioData>>

\* copyData's loop ends
CopyDataIndexEnd ==
    /\ sampler.fn = "copyData" /\ sampler.pc = "loop"
    /\ sampler.i >= sampler.settings.bufferSize
    /\ sampler' = [sampler EXCEPT !.accessed = {}, !.pc = "returned"]
    /\ UNCHANGED <<audioOnly, audioData>>

\* one iteration of run's loop: swap(ppAudioBuffer[i], ppAudioBuffer[i+1])
\* while i < bufferSize/sampleSize - 1
RunSwapIndex ==
    /\ sampler.fn = "run" /\ sampler.pc = "loop"
    /\ SizeLess(sampler.i, SizeMinusOne(NumChunks(sampler.settings)))
    /\ sampler.i < MaxWildSteps
    /\ LET acc == {[chunk |-> SizeOf(sampler.i), offset |-> 0],
                   [chunk |-> SizeOf(sampler.i + 1), offset |-> 0]}
       IN  \E p \in AfterAccess(acc, "loop") :
              sampler' = [sampler EXCEPT !.accessed = acc, !.i = @ + 1, !.pc = p]
    /\ UNCHANGED <<audioOnly, audioData>>

\* swap(ppAudioBuffer[bufferSize/sampleSize - 1], pSampleBuffer)
RunSwapLastIndex ==
    /\ sampler.fn = "run" /\ sampler.pc = "loop"
    /\ ~SizeLess(sampler.i, SizeMinusOne(NumChunks(sampler.settings)))
    /\ LET acc == {[chunk |-> SizeMinusOne(NumChunks(sampler.settings)), offset |-> 0]}
       IN  \E p \in AfterAccess(acc, "returned") :
              sampler' = [sampler EXCEPT !.accessed = acc, !.pc = p]
    /\ UNCHANGED <<audioOnly, audioData>>

SpecAudioSizes ==
    InitAudioSizes
    /\ [][CopyDataIndex \/ CopyDataIndexEnd \/ RunSwapIndex \/ RunSwapLastIndex]_vars

\* C28: for channels in {1, 2} and any sampleSize >= 1 and bufferSize >= 1,
\* copyData and run index the ring at chunk indices in [0,
\* bufferSize/sampleSize) and a chunk at offsets in [0, sampleSize) only, and
\* the loop bound bufferSize/sampleSize - 1 of run does not wrap below zero.
C28_IndicesInsideRing ==
    /\ \A a \in sampler.accessed :
          /\ ~a.chunk.top
          /\ a.chunk.v < NumChunks(sampler.settings)
          /\ a.offset < sampler.settings.sampleSize
    /\ (sampler.fn = "run" /\ sampler.accessed # {})
       => ~SizeMinusOne(NumChunks(sampler.settings)).top

\* a step in which drawFrame returns after acquire, submit and present all
\* succeeded
PresentedStep == renderer.pc = "present" /\ renderer'.ret = "presented"

\* C29: currentFrame stays in [0, MAX_FRAMES_IN_FLIGHT); a drawFrame call
\* advances it by one modulo MAX_FRAMES_IN_FLIGHT when acquire, submit and
\* present all succeed, and every other step and return (window closed, out
\* of date at acquire, out of date or suboptimal at present, which return
\* true after recreateSwapChain) leaves it unchanged.
C29_CurrentFrameAdvance ==
    [][/\ renderer.currentFrame \in 0..(MAX_FRAMES_IN_FLIGHT - 1)
       /\ renderer'.currentFrame \in 0..(MAX_FRAMES_IN_FLIGHT - 1)
       /\ PresentedStep
          => /\ renderer'.currentFrame = (renderer.currentFrame + 1) % MAX_FRAMES_IN_FLIGHT
             /\ renderer.submits = 1 /\ renderer'.pc = "idle"
       /\ ~PresentedStep => renderer'.currentFrame = renderer.currentFrame
       /\ renderer'.ret \in {"closed", "outOfDateAtAcquire", "recreatedAtPresent"}
          => renderer'.pc = "idle" /\ renderer'.currentFrame = renderer.currentFrame]_vars

C29_Witness ==
    /\ renderer.pc = "idle" /\ renderer.ret = "recreatedAtPresent"
    /\ renderer.currentFrame = 1 /\ renderer.imageIndex = 0
    /\ renderer.gpu[1].l[0] = Num(100) /\ renderer.gpu[0].l[0] = Num(300)

====
